---- MODULE Spec2Model ----
(***************************************************************************)
(* Price-tag OCR service (jasonn0118/Beezly, apps/ai).                     *)
(*                                                                         *)
(* Three implementations of the detection-to-extraction orchestrator are   *)
(* modelled side by side:                                                  *)
(*   "main"    price-project/main.py       PriceTagReader.detect_and_extract*)
(*   "modal"   price-project/modal_app.py  PriceTagReader._detect_and_extract*)
(*   "jupyter" jupyter/modal_app.py        PriceTagReader._detect_and_extract*)
(* and the two Modal deployments of the asynchronous job wrapper:          *)
(*   "price"   price-project/modal_app.py  (URL and file jobs)             *)
(*   "jupyter" jupyter/modal_app.py        (URL jobs only)                 *)
(*                                                                         *)
(* Spec     : the Job Status Store (the modal.Dict job_statuses), the      *)
(*            submission handlers, the spawned job runners and job_status. *)
(* SpecOrch : one call of the orchestrator on an image whose detections    *)
(*            and OCR outcomes are drawn from bounded sets.                *)
(* SpecQueue: the work queue (the modal.Queue image_queue), one feed_queue *)
(*            call and the process_queue workers that drain it.            *)
(* SpecGeom : _pad_to_square and the max_size constraint of extract_text   *)
(*            on images whose sizes are drawn from a bounded set.          *)
(***************************************************************************)
EXTENDS Integers, Sequences, FiniteSets, Bags, TLC

VARIABLES
    deployment,     \* which modal_app.py is deployed: "price" or "jupyter"
    job_statuses,   \* modal.Dict "job-statuses": job id -> record
    pending,        \* bag of spawned runner invocations that have not ended
    nsubmitted,     \* number of runner invocations spawned so far
    response,       \* the last HTTP response a web handler produced
    request,        \* the last request a submission handler received
    impl,           \* orchestrator implementation under SpecOrch
    crop_rejects,   \* whether PIL's Image.crop raises on an inverted box
    predict,        \* outcome of detector_model.predict: "ok" or "raises"
    dets,           \* the detections the detector yields, in its order
    orch_pc,        \* "start", then "returned" or "raised"
    out,            \* what the orchestrator call returned
    image,          \* the kind of value passed to the orchestrator as image
    predicted,      \* whether detector_model.predict has been called
    image_queue,    \* modal.Queue "image-processing-queue": entries in order
    nput,           \* number of entries put on the queue so far
    to_feed,        \* number of urls feed_queue has still to put
    wpc,            \* position of each process_queue worker
    cursor,         \* per worker, the entries its iterate() has passed
    handed,         \* per worker, the entries the queue handed to it
    worklog,        \* per worker, what it did with each entry it handled
    pil_img,        \* the image given to _pad_to_square / extract_text
    background_color, \* the colour given to _pad_to_square
    geom_pc,        \* "start", "padded", "padded_twice", "constrained", "raised"
    geom_out        \* the images the geometry steps returned, in order

jobVars == <<deployment, job_statuses, pending, nsubmitted, response,
             request>>
orchVars == <<impl, crop_rejects, predict, dets, orch_pc, out, image, predicted>>
queueVars == <<image_queue, nput, to_feed, wpc, cursor, handed, worklog>>
geomVars == <<pil_img, background_color, geom_pc, geom_out>>
vars == <<deployment, job_statuses, pending, nsubmitted, response, request,
          impl, crop_rejects, predict, dets, orch_pc, out, image, predicted,
          image_queue, nput, to_feed, wpc, cursor, handed, worklog,
          pil_img, background_color, geom_pc, geom_out>>

(***************************************************************************)
(* Bounds of the model.                                                    *)
(***************************************************************************)
\* side lengths of the input image of an orchestrator call
ImgW == 3
ImgH == 2
\* longest detection list the detector yields under SpecOrch
MaxDets == 2
\* size of the job identifier space (the code draws from 16^8 identifiers)
NumIds == 2
\* number of job submissions accepted in one behaviour
MaxSubmits == 2
\* number of process_queue workers running at once (the code allows
\* max_containers=3)
NumWorkers == 2
\* longest url list given to feed_queue
MaxItems == 2
\* small side lengths of the images given to _pad_to_square
MaxSide == 3

Max(a, b) == IF a >= b THEN a ELSE b
Min(a, b) == IF a <= b THEN a ELSE b

(***************************************************************************)
(* Detections.  A detection carries the box the detector returned (absolute*)
(* pixel coordinates, already cast to int), its confidence (in percent),   *)
(* its class label, and what the OCR model will do on its crop.            *)
(***************************************************************************)
XCoords == {-1, 0, ImgW - 1, ImgW + 1}
YCoords == {-1, 1, ImgH + 1}

\* boxes that vary along x with a full-height y range, and along y with a
\* full-width x range: valid, clamped-valid, zero-area, inverted and
\* outside-the-image boxes all occur
Boxes ==
    {<<x1, 0, x2, ImgH>> : x1 \in XCoords, x2 \in XCoords}
        \cup {<<0, y1, ImgW, y2>> : y1 \in YCoords, y2 \in YCoords}

OcrOutcomes == {"ok", "fail"}

Detections ==
    [xyxy : Boxes, conf : {90}, cls : {"price_tag"}, ocr : OcrOutcomes]

SeqsUpTo(S, n) == UNION {[1..k -> S] : k \in 0..n}

DetLists == SeqsUpTo(Detections, MaxDets)

\* text the OCR model yields for a crop it can read
OcrText == "2.99"
\* str(e) of the exception the OCR model raises on a crop it cannot read
OcrError == "ocr failed"

(***************************************************************************)
(* Geometry: the clamp of main.py 242-244 / modal_app.py 293-295.          *)
(***************************************************************************)
ClampBox(xyxy, w, h) ==
    <<Max(0, xyxy[1]), Max(0, xyxy[2]), Min(w, xyxy[3]), Min(h, xyxy[4])>>

\* the "Skip invalid boxes" test, applied to the clamped box
IsInvalidBox(b) == b[3] <= b[1] \/ b[4] <= b[2]

\* PIL's Image.crop raises ValueError when right < left or lower < upper
IsInvertedBox(b) == b[3] < b[1] \/ b[4] < b[2]

(***************************************************************************)
(* The records appended to price_tags.  All three implementations store    *)
(* the detector's xyxy under "bbox".                                       *)
(***************************************************************************)
TagRecord(det, text) ==
    [bbox |-> det.xyxy, text |-> text, confidence |-> det.conf,
     class |-> det.cls]

TagErrorRecord(det, err) ==
    [bbox |-> det.xyxy, text |-> "", confidence |-> det.conf,
     class |-> det.cls, error |-> err]

\* main.py _extract_text: every exception is caught inside and "" returned
ExtractTextMain(det) == IF det.ocr = "ok" THEN OcrText ELSE ""

(***************************************************************************)
(* One iteration of the per-detection loop.  The result says what the      *)
(* iteration did: appended a record, appended nothing, or raised out of    *)
(* the loop.                                                               *)
(***************************************************************************)
Appended(rec) == [kind |-> "record", rec |-> rec]
Nothing == [kind |-> "skip"]
Raised == [kind |-> "raise"]

\* main.py 236-275
ProcessDetectionMain(det, w, h) ==
    IF IsInvalidBox(ClampBox(det.xyxy, w, h))
    THEN Nothing
    ELSE Appended(TagRecord(det, ExtractTextMain(det)))

\* price-project/modal_app.py 287-326: extract_text raises into the loop's
\* except, which logs and goes on to the next detection
ProcessDetectionModal(det, w, h) ==
    IF IsInvalidBox(ClampBox(det.xyxy, w, h))
    THEN Nothing
    ELSE IF det.ocr = "ok"
         THEN Appended(TagRecord(det, OcrText))
         ELSE Nothing

\* jupyter/modal_app.py 220-252: no clamp and no validity test; the crop is
\* outside any try, the OCR call inside one that appends an error record
ProcessDetectionJupyter(det, rejects) ==
    IF IsInvertedBox(det.xyxy) /\ rejects
    THEN Raised
    ELSE IF det.ocr = "ok"
         THEN Appended(TagRecord(det, OcrText))
         ELSE Appended(TagErrorRecord(det, OcrError))

ProcessDetection(i, det, w, h, rejects) ==
    CASE i = "main" -> ProcessDetectionMain(det, w, h)
      [] i = "modal" -> ProcessDetectionModal(det, w, h)
      [] i = "jupyter" -> ProcessDetectionJupyter(det, rejects)

RECURSIVE DetectionLoop(_, _, _, _, _, _, _)
DetectionLoop(i, ds, k, w, h, rejects, tags) ==
    IF k > Len(ds)
    THEN [pc |-> "returned", price_tags |-> tags]
    ELSE LET r == ProcessDetection(i, ds[k], w, h, rejects)
         IN  CASE r.kind = "raise" -> [pc |-> "raised", price_tags |-> tags]
               [] r.kind = "skip" ->
                      DetectionLoop(i, ds, k + 1, w, h, rejects, tags)
               [] r.kind = "record" ->
                      DetectionLoop(i, ds, k + 1, w, h, rejects,
                                    Append(tags, r.rec))

\* the result dictionary: {"count": len(price_tags), "price_tags": ...}
ResultOf(tags) == [count |-> Len(tags), price_tags |-> tags]

NoResult == [count |-> 0 - 1, price_tags |-> <<>>]

\* an orchestrator that treats "no detections" as an error
DetectAndExtractRejectsEmpty(i, pred, ds, w, h, rejects) ==
    IF pred = "raises" \/ ds = <<>>
    THEN [pc |-> "raised", result |-> NoResult]
    ELSE LET l == DetectionLoop(i, ds, 1, w, h, rejects, <<>>)
         IN  IF l.pc = "raised"
             THEN [pc |-> "raised", result |-> NoResult]
             ELSE [pc |-> "returned", result |-> ResultOf(l.price_tags)]

\* predict, then the loop, then the result dictionary; an exception of
\* predict or one that leaves the loop leaves the call
DetectAndExtract(i, pred, ds, w, h, rejects) ==
    IF pred = "raises"
    THEN [pc |-> "raised", result |-> NoResult]
    ELSE LET l == DetectionLoop(i, ds, 1, w, h, rejects, <<>>)
         IN  IF l.pc = "raised"
             THEN [pc |-> "raised", result |-> NoResult]
             ELSE [pc |-> "returned", result |-> ResultOf(l.price_tags)]

(***************************************************************************)
(* The value passed as image.  The orchestrator first turns it into a PIL  *)
(* image: main.py and price-project/modal_app.py decode bytes with         *)
(* Image.open, wrap a numpy array with Image.fromarray and raise           *)
(* ValueError for any other type; jupyter/modal_app.py raises ValueError   *)
(* for everything that is not a PIL image.  Image.open raises on bytes     *)
(* that are no image.                                                      *)
(***************************************************************************)
ImageInputs == {"pil", "bytes_image", "bytes_junk", "ndarray", "other"}

\* an input conversion that lets undecodable bytes through
ToPilUnchecked(i, img) ==
    IF i = "jupyter"
    THEN IF img = "pil" THEN "pil" ELSE "raised"
    ELSE IF img = "other" THEN "raised" ELSE "pil"

\* "pil" when the conversion yields a PIL image, "raised" when it raises
ToPil(i, img) ==
    IF i = "jupyter"
    THEN IF img = "pil" THEN "pil" ELSE "raised"
    ELSE CASE img = "pil"         -> "pil"
           [] img = "bytes_image" -> "pil"
           [] img = "bytes_junk"  -> "raised"
           [] img = "ndarray"     -> "pil"
           [] OTHER               -> "raised"

\* the whole call: the input conversion, then predict and the loop;
\* predicted tells whether detector_model.predict was reached
DetectAndExtractImage(i, img, pred, ds, w, h, rejects) ==
    IF ToPil(i, img) = "raised"
    THEN [pc |-> "raised", result |-> NoResult, predicted |-> FALSE]
    ELSE LET r == DetectAndExtract(i, pred, ds, w, h, rejects)
         IN  [pc |-> r.pc, result |-> r.result, predicted |-> TRUE]

(***************************************************************************)
(* The Job Status Store: job_statuses, a modal.Dict.  Every write is one   *)
(* item assignment job_statuses[job_id] = {...} of a whole record.         *)
(***************************************************************************)
JobIds == 1..NumIds

\* Python's None
None == [none |-> TRUE]

\* {"status": "submitted", "result": None}
SubmittedRecord == [status |-> "submitted", result |-> None]

\* {"status": "completed", "result": result}
CompletedRecord(result) == [status |-> "completed", result |-> result]

\* a failed write that updates the submitted record in place and so keeps
\* its "result" key
FailedRecordKeepsResult(err) ==
    [status |-> "failed", result |-> None, error |-> err]

\* {"status": "failed", "error": str(e)}
FailedRecord(err) == [status |-> "failed", error |-> err]

\* job_statuses[job_id] = rec
StorePut(store, id, rec) ==
    [k \in (DOMAIN store) \cup {id} |-> IF k = id THEN rec ELSE store[k]]

EmptyStore == [k \in {} |-> None]

(***************************************************************************)
(* Inputs of the submission handlers and what the world does with them.    *)
(***************************************************************************)
Urls == {"url_image", "url_junk", "url_unreachable"}
Files == {"bytes_image", "bytes_junk"}

\* requests.get(url) followed by raise_for_status(): the bytes served, a
\* RequestException, or a server that never answers
FetchOutcomes(url) ==
    CASE url = "url_image" -> {"bytes_image"}
      [] url = "url_junk" -> {"bytes_junk"}
      [] url = "url_unreachable" -> {"error", "hang"}

FetchError == "fetch failed"
DecodeError == "cannot identify image file"
DetectError == "detection failed"

\* load_models: every failure ends in sys.exit(1)
ConstructOutcomes == {"ok", "sysexit"}

\* detection lists a job's image yields
ValidDetection ==
    [xyxy |-> <<0, 0, ImgW, ImgH>>, conf |-> 90, cls |-> "price_tag",
     ocr |-> "ok"]

JobDetLists == {<<>>, <<ValidDetection>>}

\* the orchestrator each deployment's runner calls
OrchImpl(dep) == IF dep = "price" THEN "modal" ELSE "jupyter"

(***************************************************************************)
(* The job runners.  A runner's effect on the store is the single write it *)
(* ends with, or none when it is ended from outside the try/except.        *)
(***************************************************************************)
Write(rec) == [write |-> TRUE, rec |-> rec]
NoWrite == [write |-> FALSE, rec |-> None]

\* the part of the try body after the bytes are there: decode, build the
\* reader (load_models), detect and extract, write "completed"; except
\* Exception writes "failed"; SystemExit is not an Exception
RunJobBody(bytes, construct, orch) ==
    IF bytes = "bytes_junk"
    THEN Write(FailedRecord(DecodeError))
    ELSE IF construct = "sysexit"
         THEN NoWrite
         ELSE IF orch.pc = "raised"
              THEN Write(FailedRecord(DetectError))
              ELSE Write(CompletedRecord(orch.result))

\* process_url_job: price-project fetches with timeout=10, jupyter without a
\* timeout, so a server that never answers holds the function until Modal
\* ends it at its own timeout=300
ProcessUrlJobOutcome(dep, fetch, construct, orch) ==
    IF fetch = "error"
    THEN Write(FailedRecord(FetchError))
    ELSE IF fetch = "hang"
         THEN IF dep = "price"
              THEN Write(FailedRecord(FetchError))
              ELSE NoWrite
         ELSE RunJobBody(fetch, construct, orch)

\* process_file_job
ProcessFileJobOutcome(bytes, construct, orch) ==
    RunJobBody(bytes, construct, orch)

Invocation(id, kind, input) == [job_id |-> id, kind |-> kind, input |-> input]

One(inv) == SetToBag({inv})

\* a runner whose write goes to every entry of the store
StoreAfterAll(store, id, o) ==
    IF o.write THEN [k \in (DOMAIN store) \cup {id} |-> o.rec] ELSE store

\* the store after a runner ended with outcome o
StoreAfter(store, id, o) ==
    IF o.write THEN StorePut(store, id, o.rec) ELSE store

\* what the world may do to one run of the orchestrator inside a runner
OrchOutcomes(dep) ==
    {DetectAndExtract(OrchImpl(dep), pred, ds, ImgW, ImgH, rejects) :
        pred \in {"ok", "raises"}, ds \in JobDetLists, rejects \in BOOLEAN}

\* every way one invocation of process_url_job can end
UrlJobOutcomes(dep, url) ==
    {ProcessUrlJobOutcome(dep, fetch, construct, orch) :
        fetch \in FetchOutcomes(url), construct \in ConstructOutcomes,
        orch \in OrchOutcomes(dep)}

\* every way one invocation of process_file_job can end
FileJobOutcomes(dep, bytes) ==
    {ProcessFileJobOutcome(bytes, construct, orch) :
        construct \in ConstructOutcomes, orch \in OrchOutcomes(dep)}

ProcessUrlJob(inv) ==
    /\ BagIn(inv, pending)
    /\ inv.kind = "url"
    /\ \E o \in UrlJobOutcomes(deployment, inv.input) :
          job_statuses' = StoreAfter(job_statuses, inv.job_id, o)
    /\ pending' = pending (-) One(inv)
    /\ UNCHANGED <<deployment, nsubmitted, response, request>>
    /\ UNCHANGED <<orchVars, queueVars, geomVars>>

ProcessFileJob(inv) ==
    /\ BagIn(inv, pending)
    /\ inv.kind = "file"
    /\ \E o \in FileJobOutcomes(deployment, inv.input) :
          job_statuses' = StoreAfter(job_statuses, inv.job_id, o)
    /\ pending' = pending (-) One(inv)
    /\ UNCHANGED <<deployment, nsubmitted, response, request>>
    /\ UNCHANGED <<orchVars, queueVars, geomVars>>

(***************************************************************************)
(* The web handlers.                                                       *)
(***************************************************************************)
Response(op, id, code, body) ==
    [op |-> op, job_id |-> id, code |-> code, body |-> body]

NoResponse == Response("none", 0, 0, None)

\* {"job_id": job_id, "status": "submitted"}
Accepted(op, id) == Response(op, id, 200, [status |-> "submitted"])

\* HTTPException(status_code=code, detail=...)
HttpError(op, id, code) == Response(op, id, code, [detail |-> "error"])

\* what a submission handler was sent: the "url" of the JSON body ("" when
\* the body has none), or the contents of the uploaded file ("unreadable"
\* when file.read() raises)
Request(op, input) == [op |-> op, input |-> input]
NoRequest == Request("none", "")

\* a handler that spawns the runner twice
CreateAndSpawnTwice(op, id, kind, input) ==
    /\ nsubmitted < MaxSubmits
    /\ job_statuses' = StorePut(job_statuses, id, SubmittedRecord)
    /\ pending' = pending (+) One(Invocation(id, kind, input))
                          (+) One(Invocation(id, kind, input))
    /\ nsubmitted' = nsubmitted + 1
    /\ response' = Accepted(op, id)

\* create the entry, spawn the runner, answer; job_id is f"job_{uuid4().hex[:8]}"
CreateAndSpawn(op, id, kind, input) ==
    /\ nsubmitted < MaxSubmits
    /\ job_statuses' = StorePut(job_statuses, id, SubmittedRecord)
    /\ pending' = pending (+) One(Invocation(id, kind, input))
    /\ nsubmitted' = nsubmitted + 1
    /\ response' = Accepted(op, id)

\* submit_job_url; url = "" stands for a body without a (truthy) "url"
SubmitJobUrl ==
    /\ \E url \in Urls \cup {""} :
          /\ request' = Request("submit_job_url", url)
          /\ IF url = ""
             THEN /\ response' = HttpError("submit_job_url", 0, 400)
                  /\ UNCHANGED <<job_statuses, pending, nsubmitted>>
             ELSE \E id \in JobIds :
                      CreateAndSpawn("submit_job_url", id, "url", url)
    /\ UNCHANGED deployment
    /\ UNCHANGED <<orchVars, queueVars, geomVars>>

\* submit_job (price-project only); file.read() may raise inside the try
SubmitJob ==
    /\ deployment = "price"
    /\ \E contents \in Files, readOk \in BOOLEAN :
          /\ request' = Request("submit_job",
                                IF readOk THEN contents ELSE "unreadable")
          /\ IF ~readOk
             THEN /\ response' = HttpError("submit_job", 0, 500)
                  /\ UNCHANGED <<job_statuses, pending, nsubmitted>>
             ELSE \E id \in JobIds :
                      CreateAndSpawn("submit_job", id, "file", contents)
    /\ UNCHANGED deployment
    /\ UNCHANGED <<orchVars, queueVars, geomVars>>

\* a lookup with a default instead of the membership test
JobStatusResponseDefault(store, id) ==
    Response("job_status", id, 200,
             IF id \in DOMAIN store THEN store[id] ELSE SubmittedRecord)

\* job_status: 404 when the id is not in the store, else the stored record
JobStatusResponse(store, id) ==
    IF id \notin DOMAIN store
    THEN HttpError("job_status", id, 404)
    ELSE Response("job_status", id, 200, store[id])

JobStatus ==
    /\ \E id \in JobIds : response' = JobStatusResponse(job_statuses, id)
    /\ UNCHANGED <<deployment, job_statuses, pending, nsubmitted, request>>
    /\ UNCHANGED <<orchVars, queueVars, geomVars>>

Deployments == {"price", "jupyter"}

Workers == 1..NumWorkers

\* the values the variables of a part of the system have while a
\* specification leaves that part alone
JobIdle ==
    /\ job_statuses = EmptyStore
    /\ pending = EmptyBag
    /\ nsubmitted = 0
    /\ response = NoResponse
    /\ request = NoRequest

OrchIdle ==
    /\ impl = "main"
    /\ crop_rejects = TRUE
    /\ predict = "ok"
    /\ dets = <<>>
    /\ orch_pc = "idle"
    /\ out = NoResult
    /\ image = "pil"
    /\ predicted = FALSE

QueueIdle ==
    /\ image_queue = <<>>
    /\ nput = 0
    /\ to_feed = 0
    /\ wpc = [w \in Workers |-> "idle"]
    /\ cursor = [w \in Workers |-> 0]
    /\ handed = [w \in Workers |-> {}]
    /\ worklog = [w \in Workers |-> <<>>]

GeomIdle ==
    /\ pil_img = None
    /\ background_color = "white"
    /\ geom_pc = "idle"
    /\ geom_out = <<>>

Init ==
    /\ deployment \in Deployments
    /\ job_statuses = EmptyStore
    /\ pending = EmptyBag
    /\ nsubmitted = 0
    /\ response = NoResponse
    /\ request = NoRequest
    /\ impl = "main"
    /\ crop_rejects = TRUE
    /\ predict = "ok"
    /\ dets = <<>>
    /\ orch_pc = "idle"
    /\ out = NoResult
    /\ image = "pil"
    /\ predicted = FALSE
    /\ QueueIdle
    /\ GeomIdle

Next ==
    \/ SubmitJobUrl
    \/ SubmitJob
    \/ \E inv \in BagToSet(pending) : ProcessUrlJob(inv)
    \/ \E inv \in BagToSet(pending) : ProcessFileJob(inv)
    \/ JobStatus

Spec == Init /\ [][Next]_vars

(***************************************************************************)
(* One orchestrator call.                                                  *)
(***************************************************************************)
Impls == {"main", "modal", "jupyter"}

InitOrch ==
    /\ deployment = "price"
    /\ job_statuses = EmptyStore
    /\ pending = EmptyBag
    /\ nsubmitted = 0
    /\ response = NoResponse
    /\ request = NoRequest
    /\ impl \in Impls
    /\ crop_rejects \in BOOLEAN
    /\ impl # "jupyter" => crop_rejects
    /\ predict \in {"ok", "raises"}
    /\ dets \in DetLists
    /\ predict = "raises" => dets = <<>>
    /\ orch_pc = "start"
    /\ out = NoResult
    /\ image \in ImageInputs
    /\ image # "pil" => Len(dets) <= 1
    /\ predicted = FALSE
    /\ QueueIdle
    /\ GeomIdle

\* detect_and_extract / _detect_and_extract on the drawn image
Process ==
    /\ orch_pc = "start"
    /\ LET r == DetectAndExtractImage(impl, image, predict, dets, ImgW, ImgH,
                                      crop_rejects)
       IN  /\ orch_pc' = r.pc
           /\ out' = r.result
           /\ predicted' = r.predicted
    /\ UNCHANGED <<impl, crop_rejects, predict, dets, image>>
    /\ UNCHANGED <<jobVars, queueVars, geomVars>>

NextOrch == Process

SpecOrch == InitOrch /\ [][NextOrch]_vars

(***************************************************************************)
(* Properties of the Job Status Store and the job runners (under Spec).    *)
(***************************************************************************)
Terminal == {"completed", "failed"}

\* a runner invocation inv ends in this step
RunnerEnds(inv) == BagIn(inv, pending) /\ pending' = pending (-) One(inv)

\* C1: once job_statuses[id] holds a terminal status ('completed' or
\* 'failed'), no later step changes the entry: it is never turned back into
\* 'submitted' nor into the other terminal status.
C1_TerminalIsFinal ==
    [][\A id \in DOMAIN job_statuses :
          job_statuses[id].status \in Terminal
              => job_statuses'[id] = job_statuses[id]]_vars

\* C2: whenever an invocation of a job runner ends, whichever step failed,
\* the job it ran for is 'completed' or 'failed': no path of the runner
\* leaves the job 'submitted'.
C2_RunnerEndsTerminal ==
    [][\A inv \in BagToSet(pending) :
          RunnerEnds(inv)
              => job_statuses'[inv.job_id].status \in Terminal]_vars

WellFormedJob(rec) ==
    /\ "status" \in DOMAIN rec
    /\ CASE rec.status = "submitted" ->
                DOMAIN rec = {"status", "result"} /\ rec.result = None
         [] rec.status = "completed" ->
                DOMAIN rec = {"status", "result"} /\ rec.result # None
         [] rec.status = "failed" ->
                DOMAIN rec = {"status", "error"} /\ rec.error # ""
         [] OTHER -> FALSE

\* C3: every entry of job_statuses, and every record job_status returned,
\* is well-formed: its status is one of 'submitted', 'completed', 'failed';
\* 'submitted' has result null; 'completed' carries a result and no error;
\* 'failed' carries an error message and no result.
C3_EntriesWellFormed ==
    /\ \A id \in DOMAIN job_statuses : WellFormedJob(job_statuses[id])
    /\ (response.op = "job_status" /\ response.code = 200)
           => WellFormedJob(response.body)

\* a completed and a failed job side by side, the failed one just read
C3_Witness ==
    /\ \E id \in DOMAIN job_statuses : job_statuses[id].status = "completed"
    /\ \E id \in DOMAIN job_statuses : job_statuses[id].status = "failed"
    /\ response.op = "job_status"
    /\ response.code = 200
    /\ response.body.status = "failed"

\* C8: a submission is accepted only under an identifier that is not in the
\* store yet, and no existing entry is overwritten by a fresh
\* {'submitted', null} record.
C8_DuplicateJobRejected ==
    [][/\ nsubmitted' # nsubmitted
           => response'.job_id \notin DOMAIN job_statuses
        /\ \A id \in DOMAIN job_statuses :
              job_statuses'[id] # job_statuses[id]
                  => job_statuses'[id] # SubmittedRecord]_vars

\* C9: a runner's terminal write changes the store only for a job that
\* exists and is currently 'submitted'; the first terminal write is kept.
C9_TerminalWriteOnlyOnSubmitted ==
    [][\A inv \in BagToSet(pending) :
          (RunnerEnds(inv) /\ job_statuses' # job_statuses)
              => /\ inv.job_id \in DOMAIN job_statuses
                 /\ job_statuses[inv.job_id].status = "submitted"]_vars

\* C10: a job_status lookup leaves the store as it is; for an id that is not
\* in the store it answers 404, for a present id it answers that id's
\* current record.
C10_JobStatusLookup ==
    [][(response' # response /\ response'.op = "job_status")
          => /\ job_statuses' = job_statuses
             /\ IF response'.job_id \in DOMAIN job_statuses
                THEN /\ response'.code = 200
                     /\ response'.body = job_statuses[response'.job_id]
                ELSE response'.code = 404]_vars

\* a 404 for an absent id while another job is in the store
C10_Witness ==
    /\ response.op = "job_status"
    /\ response.code = 404
    /\ response.job_id \notin DOMAIN job_statuses
    /\ DOMAIN job_statuses # {}

(***************************************************************************)
(* Properties of one orchestrator call (under SpecOrch).                   *)
(***************************************************************************)
\* the detection's box is non-degenerate after clamping to the image
ValidDet(d) == ~IsInvalidBox(ClampBox(d.xyxy, ImgW, ImgH))

ValidIdx == {k \in 1..Len(dets) : ValidDet(dets[k])}

BoxesOf(recs) == [k \in 1..Len(recs) |-> recs[k].bbox]

XyxyOf(ds) == [k \in 1..Len(ds) |-> ds[k].xyxy]

\* C4: for every detection with a valid clamped box whose text extraction
\* fails, the returned list holds a record of that detection with text ""
\* and a populated error field, the count includes it, and every valid
\* detection of the image has its record.
C4_FailedExtractionStillEmitted ==
    orch_pc = "returned"
        => /\ \A k \in ValidIdx :
                 dets[k].ocr = "fail"
                     => \E j \in 1..Len(out.price_tags) :
                           LET rec == out.price_tags[j]
                           IN  /\ rec.bbox = dets[k].xyxy
                               /\ rec.text = ""
                               /\ "error" \in DOMAIN rec
                               /\ rec.error # ""
           /\ out.count = Len(out.price_tags)
           /\ out.count >= Cardinality(ValidIdx)

\* C5: when some detection's clamped box is degenerate, the call still
\* returns (nothing propagates out of it), no record is emitted for the
\* degenerate detections, and the record list is strictly shorter than the
\* detection list.
C5_DegenerateSkipped ==
    (orch_pc # "start" /\ predicted
                       /\ \E k \in 1..Len(dets) : ~ValidDet(dets[k]))
        => /\ orch_pc = "returned"
           /\ Len(out.price_tags) <= Cardinality(ValidIdx)
           /\ Len(out.price_tags) < Len(dets)

\* C6: the returned records are exactly the detections whose clamped box is
\* non-degenerate, in the detector's order, and count is the list's length.
C6_RecordsMirrorValidDetections ==
    orch_pc = "returned"
        => /\ BoxesOf(out.price_tags) = XyxyOf(SelectSeq(dets, ValidDet))
           /\ out.count = Len(out.price_tags)

\* C7: when the detector returns zero detections the call returns count = 0
\* and an empty record list, and raises nothing.
C7_NoDetections ==
    (orch_pc # "start" /\ predicted /\ predict = "ok" /\ dets = <<>>)
        => /\ orch_pc = "returned"
           /\ out.count = 0
           /\ out.price_tags = <<>>

\* the call on an image without detections has returned
C7_Witness ==
    /\ orch_pc = "returned"
    /\ predicted
    /\ predict = "ok"
    /\ Len(dets) = 0

(***************************************************************************)
(* The work queue: image_queue, a modal.Queue, fed by feed_queue and       *)
(* drained by process_queue.  An entry is named by its sequence number in  *)
(* the order of the puts.                                                  *)
(*   price-project/modal_app.py  for url in image_queue.iterate(): ...     *)
(*       modal.Queue.iterate goes through the entries of the queue without *)
(*       removing them and stops when no entry follows the last one it     *)
(*       yielded (item_poll_timeout is left at 0).                         *)
(*   jupyter/modal_app.py        while not image_queue.is_empty():         *)
(*                                   url = image_queue.get() ...           *)
(*       modal.Queue.get removes and returns the next entry and, with the  *)
(*       default block=True and timeout=None, waits for one while the      *)
(*       queue is empty.  The class is declared with timeout=600, which    *)
(*       ends a call that is still waiting.                                *)
(* The body of the loop catches every Exception of the fetch, the decoding *)
(* and the orchestrator.  A call of the queue service itself may fail.     *)
(***************************************************************************)
\* an entry of the queue: its sequence number and the url that was put
Entry(n, url) == [id |-> n, url |-> url]

\* the loop body on one url: one requests.get, then Image.open, then one
\* _detect_and_extract; "logged" when the except clause caught something,
\* "hang" when jupyter's requests.get(url), which has no timeout, never
\* returns
ProcessQueueItemRetrying(dep, fetch, orch) ==
    IF fetch \in {"error", "hang"}
    THEN [fetches |-> 2, calls |-> 0, end |-> "logged"]
    ELSE IF fetch = "bytes_junk"
         THEN [fetches |-> 1, calls |-> 0, end |-> "logged"]
         ELSE [fetches |-> 1, calls |-> 1,
               end |-> IF orch.pc = "raised" THEN "logged" ELSE "ok"]

ProcessQueueItem(dep, fetch, orch) ==
    IF fetch = "error"
    THEN [fetches |-> 1, calls |-> 0, end |-> "logged"]
    ELSE IF fetch = "hang"
         THEN [fetches |-> 1, calls |-> 0,
               end |-> IF dep = "price" THEN "logged" ELSE "hang"]
         ELSE IF fetch = "bytes_junk"
              THEN [fetches |-> 1, calls |-> 0, end |-> "logged"]
              ELSE [fetches |-> 1, calls |-> 1,
                    end |-> IF orch.pc = "raised" THEN "logged" ELSE "ok"]

ItemOutcomes(dep, url) ==
    {ProcessQueueItem(dep, fetch, orch) :
        fetch \in FetchOutcomes(url), orch \in OrchOutcomes(dep)}

\* what a worker notes of an entry it handled
Handled(e, o) ==
    [entry |-> e.id, fetches |-> o.fetches, calls |-> o.calls, end |-> o.end]

\* feed_queue: one image_queue.put(url) of the loop over urls
FeedQueuePut ==
    /\ to_feed > 0
    /\ \E url \in Urls :
          image_queue' = Append(image_queue, Entry(nput + 1, url))
    /\ nput' = nput + 1
    /\ to_feed' = to_feed - 1
    /\ UNCHANGED <<wpc, cursor, handed, worklog>>
    /\ UNCHANGED <<jobVars, orchVars, geomVars>>

\* PriceTagReader().process_queue is called
StartWorker(w) ==
    /\ wpc[w] = "idle"
    /\ wpc' = [wpc EXCEPT ![w] = "loop"]
    /\ UNCHANGED <<image_queue, nput, to_feed, cursor, handed, worklog>>
    /\ UNCHANGED <<jobVars, orchVars, geomVars>>

\* price-project: one step of for url in image_queue.iterate(), the loop
\* body included; the loop ends when no entry follows the cursor
IterateNext(w) ==
    /\ deployment = "price"
    /\ wpc[w] = "loop"
    /\ IF cursor[w] < Len(image_queue)
       THEN LET e == image_queue[cursor[w] + 1]
            IN  /\ handed' = [handed EXCEPT ![w] = @ \cup {e.id}]
                /\ cursor' = [cursor EXCEPT ![w] = @ + 1]
                /\ \E o \in ItemOutcomes(deployment, e.url) :
                      worklog' = [worklog EXCEPT
                                    ![w] = Append(@, Handled(e, o))]
                /\ wpc' = wpc
       ELSE /\ wpc' = [wpc EXCEPT ![w] = "finished"]
            /\ UNCHANGED <<cursor, handed, worklog>>
    /\ UNCHANGED <<image_queue, nput, to_feed>>
    /\ UNCHANGED <<jobVars, orchVars, geomVars>>

\* price-project: the queue service fails while iterate() asks for the next
\* entry; the for statement is outside the try, so the exception leaves
\* process_queue
IterateRaises(w) ==
    /\ deployment = "price"
    /\ wpc[w] = "loop"
    /\ wpc' = [wpc EXCEPT ![w] = "crashed"]
    /\ UNCHANGED <<image_queue, nput, to_feed, cursor, handed, worklog>>
    /\ UNCHANGED <<jobVars, orchVars, geomVars>>

\* jupyter: the loop condition, while not image_queue.is_empty()
IsEmpty(w) ==
    /\ deployment = "jupyter"
    /\ wpc[w] = "loop"
    /\ wpc' = [wpc EXCEPT ![w] = IF image_queue = <<>> THEN "finished"
                                                        ELSE "get"]
    /\ UNCHANGED <<image_queue, nput, to_feed, cursor, handed, worklog>>
    /\ UNCHANGED <<jobVars, orchVars, geomVars>>

\* jupyter: url = image_queue.get() and the rest of the loop body; the get
\* waits while the queue is empty
Get(w) ==
    /\ deployment = "jupyter"
    /\ wpc[w] = "get"
    /\ image_queue # <<>>
    /\ handed' = [handed EXCEPT ![w] = @ \cup {Head(image_queue).id}]
    /\ image_queue' = Tail(image_queue)
    /\ \E o \in ItemOutcomes(deployment, Head(image_queue).url) :
          /\ worklog' = [worklog EXCEPT
                           ![w] = Append(@, Handled(Head(image_queue), o))]
          /\ wpc' = [wpc EXCEPT ![w] = IF o.end = "hang" THEN "killed"
                                                          ELSE "loop"]
    /\ UNCHANGED <<nput, to_feed, cursor>>
    /\ UNCHANGED <<jobVars, orchVars, geomVars>>

\* jupyter: the queue service fails in image_queue.get().  The except
\* clause prints url, a local that is bound only once a get has returned
\* in this call: before that the print raises UnboundLocalError, which
\* leaves process_queue
GetRaises(w) ==
    /\ deployment = "jupyter"
    /\ wpc[w] = "get"
    /\ wpc' = [wpc EXCEPT ![w] = IF worklog[w] = <<>> THEN "crashed"
                                                      ELSE "loop"]
    /\ UNCHANGED <<image_queue, nput, to_feed, cursor, handed, worklog>>
    /\ UNCHANGED <<jobVars, orchVars, geomVars>>

\* jupyter: timeout=600 of the class ends a call waiting in get()
GetTimesOut(w) ==
    /\ deployment = "jupyter"
    /\ wpc[w] = "get"
    /\ image_queue = <<>>
    /\ wpc' = [wpc EXCEPT ![w] = "killed"]
    /\ UNCHANGED <<image_queue, nput, to_feed, cursor, handed, worklog>>
    /\ UNCHANGED <<jobVars, orchVars, geomVars>>

\* feed_queue is called once with a list of to_feed urls; any number of
\* process_queue calls run beside it
InitQueue ==
    /\ deployment \in Deployments
    /\ JobIdle
    /\ OrchIdle
    /\ GeomIdle
    /\ image_queue = <<>>
    /\ nput = 0
    /\ to_feed \in 0..MaxItems
    /\ wpc = [w \in Workers |-> "idle"]
    /\ cursor = [w \in Workers |-> 0]
    /\ handed = [w \in Workers |-> {}]
    /\ worklog = [w \in Workers |-> <<>>]

NextQueue ==
    \/ FeedQueuePut
    \/ \E w \in Workers : StartWorker(w)
    \/ \E w \in Workers : IterateNext(w)
    \/ \E w \in Workers : IterateRaises(w)
    \/ \E w \in Workers : IsEmpty(w)
    \/ \E w \in Workers : Get(w)
    \/ \E w \in Workers : GetRaises(w)
    \/ \E w \in Workers : GetTimesOut(w)

SpecQueue == InitQueue /\ [][NextQueue]_vars

(***************************************************************************)
(* Properties of the work queue (under SpecQueue).                         *)
(***************************************************************************)
\* the workers an entry has been handed to
HandedTo(e) == {w \in Workers : e \in handed[w]}

\* C11: whatever the interleaving of the workers and feed_queue, no entry
\* of the queue is handed to two workers.
C11_NoItemHandedTwice ==
    \A e \in 1..nput : Cardinality(HandedTo(e)) <= 1

\* C12: once feed_queue has put all its urls and the queue is empty, no
\* process_queue worker is left waiting in a dequeue: every worker that was
\* started goes on to "Queue processing finished".
C12_NoWorkerWaitsOnDrainedQueue ==
    \A w \in Workers :
        ~(wpc[w] = "get" /\ image_queue = <<>> /\ to_feed = 0)

(***************************************************************************)
(* Properties of the submission handlers and the runners (under Spec).     *)
(***************************************************************************)
\* a step of submit_job_url or submit_job: a request arrives, and it is
\* either a different one or one that is accepted
SubmissionStep == request' # request \/ nsubmitted' # nsubmitted

\* the required input is missing: no "url" in the body, no readable file
MissingInput(req) == req.input \in {"", "unreadable"}

C14_SubmissionsDistinctAndTerminal ==
    /\ Cardinality(DOMAIN job_statuses) = nsubmitted
    /\ pending = EmptyBag =>
          \A id \in DOMAIN job_statuses : job_statuses[id].status \in Terminal

\* C15: when the runner of a job for an unreachable url ends, the entry of
\* the job is 'failed' with the fetch error: it is not left 'submitted' and
\* is not 'completed'.
C15_UnreachableUrlJobFails ==
    [][\A inv \in BagToSet(pending) :
          (RunnerEnds(inv) /\ inv.kind = "url"
                           /\ inv.input = "url_unreachable")
              => /\ inv.job_id \in DOMAIN job_statuses'
                 /\ job_statuses'[inv.job_id] = FailedRecord(FetchError)]_vars

(***************************************************************************)
(* Image geometry.  An image is its size and a description of its content: *)
(* a source image, a canvas of one colour with an image pasted at an       *)
(* offset (Image.new, then paste), or a resized image (Image.resize).      *)
(***************************************************************************)
\* max_size = 1024 of extract_text / _extract_text
MaxSize == 1024

SourceImage(w, h) == [size |-> <<w, h>>, content |-> [kind |-> "source"]]

\* Image.new(pil_img.mode, (cw, ch), bg) followed by result.paste(img, at)
Canvas(cw, ch, bg, img, at) ==
    [size |-> <<cw, ch>>,
     content |-> [kind |-> "canvas", bg |-> bg, at |-> at, pasted |-> img]]

\* image.resize(new_size, LANCZOS)
Resized(img, new_size) ==
    [size |-> new_size, content |-> [kind |-> "resized", from |-> img]]

\* a padding that makes the canvas one pixel wider than high
PadToSquareMargin(img, bg) ==
    LET width == img.size[1]
        height == img.size[2]
        size == Max(width, height)
    IN  IF width = height
        THEN img
        ELSE Canvas(size + 1, size, bg, img,
                    <<(size - width) \div 2, (size - height) \div 2>>)

\* price-project/main.py
PadToSquareMain(img, bg) ==
    LET width == img.size[1]
        height == img.size[2]
        size == Max(width, height)
    IN  IF width = height
        THEN img
        ELSE Canvas(size, size, bg, img,
                    <<(size - width) \div 2, (size - height) \div 2>>)

\* price-project/modal_app.py
PadToSquareModal(img, bg) ==
    LET width == img.size[1]
        height == img.size[2]
        size == Max(width, height)
    IN  IF width = height
        THEN img
        ELSE Canvas(size, size, bg, img,
                    <<(size - width) \div 2, (size - height) \div 2>>)

\* a padding that centres along the wrong axis
PadToSquareJupyterSwapped(img, bg) ==
    LET width == img.size[1]
        height == img.size[2]
    IN  IF width = height
        THEN img
        ELSE IF width > height
             THEN Canvas(width, width, bg, img,
                         <<(width - height) \div 2, 0>>)
             ELSE Canvas(height, height, bg, img,
                         <<0, (height - width) \div 2>>)

\* jupyter/modal_app.py
PadToSquareJupyter(img, bg) ==
    LET width == img.size[1]
        height == img.size[2]
    IN  IF width = height
        THEN img
        ELSE IF width > height
             THEN Canvas(width, width, bg, img,
                         <<0, (width - height) \div 2>>)
             ELSE Canvas(height, height, bg, img,
                         <<(height - width) \div 2, 0>>)

PadToSquare(i, img, bg) ==
    CASE i = "main"    -> PadToSquareMain(img, bg)
      [] i = "modal"   -> PadToSquareModal(img, bg)
      [] i = "jupyter" -> PadToSquareJupyter(img, bg)

\* the side lengths drawn for the input image: the small ones, and lengths
\* around and above max_size
Sides == (0..MaxSide) \cup
         {561, MaxSize - 1, MaxSize, MaxSize + 1, 1122, 2 * MaxSize}

\* scale = max_size / m is a double.  When d * max_size / m is a whole
\* number, the rounding of the quotient can put d * scale just below it, and
\* int() then yields one less: of the lengths above max_size in Sides this
\* happens for m = 1122 (1122 * (1024 / 1122) = 1023.9999999999999) and not
\* for m = 1025 or m = 2048.
FallsShort == {1122}

\* int(d * scale) with scale = max_size / m
ScaleDim(d, m) ==
    LET q == (d * MaxSize) \div m
    IN  IF d > 0 /\ (d * MaxSize) % m = 0 /\ m \in FallsShort
        THEN q - 1
        ELSE q

\* a constraint that scales the smaller dimension up to max_size as well
NewSizeStretched(size) ==
    IF Max(size[1], size[2]) > MaxSize
    THEN <<MaxSize, MaxSize>>
    ELSE size

\* the size extract_text gives the image: new_size when max(image.size)
\* exceeds max_size, else image.size
NewSize(size) ==
    LET m == Max(size[1], size[2])
    IN  IF m > MaxSize
        THEN <<ScaleDim(size[1], m), ScaleDim(size[2], m)>>
        ELSE size

\* the max_size block of extract_text: "image" when the image is kept,
\* a resized image, or "raised" when Image.resize rejects a side below 1
ConstrainMaxDimension(img) ==
    LET new_size == NewSize(img.size)
    IN  IF Max(img.size[1], img.size[2]) <= MaxSize
        THEN [pc |-> "constrained", image |-> img]
        ELSE IF new_size[1] < 1 \/ new_size[2] < 1
             THEN [pc |-> "raised", image |-> img]
             ELSE [pc |-> "constrained", image |-> Resized(img, new_size)]

Colours == {"white", "black"}

\* the image the next geometry step works on
Current == IF geom_out = <<>> THEN pil_img ELSE geom_out[Len(geom_out)]

InitGeom ==
    /\ deployment = "price"
    /\ JobIdle
    /\ QueueIdle
    /\ crop_rejects = TRUE
    /\ predict = "ok"
    /\ dets = <<>>
    /\ orch_pc = "idle"
    /\ out = NoResult
    /\ image = "pil"
    /\ predicted = FALSE
    /\ impl \in Impls
    /\ pil_img \in {SourceImage(w, h) : w \in Sides, h \in Sides}
    /\ background_color \in Colours
    /\ geom_pc = "start"
    /\ geom_out = <<>>

\* padded = self._pad_to_square(cropped, background_color)
Pad ==
    /\ geom_pc = "start"
    /\ geom_out' = Append(geom_out,
                          PadToSquare(impl, Current, background_color))
    /\ geom_pc' = "padded"
    /\ UNCHANGED <<pil_img, background_color>>
    /\ UNCHANGED <<jobVars, orchVars, queueVars>>

\* _pad_to_square applied to its own result
PadAgain ==
    /\ geom_pc = "padded"
    /\ geom_out' = Append(geom_out,
                          PadToSquare(impl, Current, background_color))
    /\ geom_pc' = "padded_twice"
    /\ UNCHANGED <<pil_img, background_color>>
    /\ UNCHANGED <<jobVars, orchVars, queueVars>>

\* the max_size block at the head of extract_text (price-project only), on
\* the image itself or on the padded image the orchestrator passes
Constrain ==
    /\ geom_pc \in {"start", "padded"}
    /\ impl # "jupyter"
    /\ LET r == ConstrainMaxDimension(Current)
       IN  /\ geom_pc' = r.pc
           /\ geom_out' = Append(geom_out, r.image)
    /\ UNCHANGED <<pil_img, background_color>>
    /\ UNCHANGED <<jobVars, orchVars, queueVars>>

NextGeom == Pad \/ PadAgain \/ Constrain

SpecGeom == InitGeom /\ [][NextGeom]_vars

(***************************************************************************)
(* Properties of the image geometry (under SpecGeom).                      *)
(***************************************************************************)
\* C16: _pad_to_square applied to its own output returns that output: the
\* same size and the same content.
C16_PadToSquareIdempotent ==
    geom_pc = "padded_twice" => geom_out[2] = geom_out[1]

\* a non-square image was padded, and the result was padded again
C16_Witness ==
    /\ geom_pc = "padded_twice"
    /\ pil_img.size[1] # pil_img.size[2]
    /\ geom_out[1] # pil_img
    /\ geom_out[2].size[1] = geom_out[2].size[2]

\* C17: a square image is returned as it is; any other image comes back as
\* a square canvas of side max(width, height) in the background colour with
\* the image pasted at ((side - width) div 2, (side - height) div 2), which
\* is 0 along the longer axis and keeps the image inside the canvas; and
\* the three implementations return the same image.
C17_PadToSquareGeometry ==
    geom_pc = "padded" =>
        LET width == pil_img.size[1]
            height == pil_img.size[2]
            side == Max(width, height)
            o == geom_out[1]
        IN  /\ IF width = height
               THEN o = pil_img
               ELSE /\ o.size = <<side, side>>
                    /\ o.content.kind = "canvas"
                    /\ o.content.bg = background_color
                    /\ o.content.pasted = pil_img
                    /\ o.content.at = <<(side - width) \div 2,
                                        (side - height) \div 2>>
                    /\ width = side => o.content.at[1] = 0
                    /\ height = side => o.content.at[2] = 0
                    /\ o.content.at[1] >= 0
                    /\ o.content.at[1] + width <= side
                    /\ o.content.at[2] >= 0
                    /\ o.content.at[2] + height <= side
            /\ \A i \in Impls : PadToSquare(i, pil_img, background_color) = o

\* jupyter's padding put a 1 x 3 image at offset (1, 0) of a 3 x 3 canvas
C17_Witness ==
    /\ geom_pc = "padded"
    /\ impl = "jupyter"
    /\ pil_img = SourceImage(1, 3)
    /\ geom_out[1].size = <<3, 3>>
    /\ geom_out[1].content.at = <<1, 0>>

\* the image the max_size block was given
Constrained == IF Len(geom_out) = 1 THEN pil_img
                                     ELSE geom_out[Len(geom_out) - 1]

CropBox(i, xyxy, w, h) ==
    IF i = "jupyter" THEN xyxy ELSE ClampBox(xyxy, w, h)

\* 0 <= x1 < x2 <= w and 0 <= y1 < y2 <= h
WithinImage(b, w, h) ==
    /\ 0 <= b[1] /\ b[1] < b[3] /\ b[3] <= w
    /\ 0 <= b[2] /\ b[2] < b[4] /\ b[4] <= h

\* C19: the bbox of every returned record is a box inside the image with
\* positive width and height, and it is the box that was given to
\* image.crop for one of the detections.
C19_BboxIsClampedBox ==
    orch_pc = "returned" =>
        \A k \in 1..Len(out.price_tags) :
            LET b == out.price_tags[k].bbox
            IN  /\ WithinImage(b, ImgW, ImgH)
                /\ \E j \in 1..Len(dets) :
                      b = CropBox(impl, dets[j].xyxy, ImgW, ImgH)

\* inputs that are no image: bytes that do not decode, a value of a type
\* no implementation accepts
NoImageInputs == {"bytes_junk", "other"}

SyncError(op, code, err) == Response(op, 0, code, [detail |-> err])

\* the handler returned no response of its own
NoAnswer(op) == Response(op, 0, 0, None)

\* what one run of the orchestrator on a decoded image may do
SyncOrchOutcomes(srv) ==
    {DetectAndExtract(srv, pred, ds, ImgW, ImgH, rejects) :
        pred \in {"ok", "raises"}, ds \in JobDetLists, rejects \in BOOLEAN}

\* whether the models are loaded while the request is handled
SyncConstructOutcomes(srv) ==
    IF srv = "modal" THEN ConstructOutcomes ELSE {"ok"}

\* Image.open, detect and extract, return the result
SyncBody(op, bytes, construct, orch) ==
    IF bytes \in {"bytes_junk", "unreadable"}
    THEN SyncError(op, 500, DecodeError)
    ELSE IF construct = "sysexit"
         THEN NoAnswer(op)
         ELSE IF orch.pc = "raised"
              THEN SyncError(op, 500, DetectError)
              ELSE Response(op, 0, 200, orch.result)

ProcessImageUrlResponse(srv, fetch, construct, orch) ==
    IF fetch = "error"
    THEN SyncError("process_image_url", 400, FetchError)
    ELSE IF fetch = "hang"
         THEN IF srv = "jupyter"
              THEN NoAnswer("process_image_url")
              ELSE SyncError("process_image_url", 400, FetchError)
         ELSE SyncBody("process_image_url", fetch, construct, orch)

ProcessImageResponse(srv, bytes, construct, orch) ==
    SyncBody("process_image", bytes, construct, orch)

\* every answer one call of process_image_url can give
ProcessImageUrlResponses(srv, url) ==
    {ProcessImageUrlResponse(srv, fetch, construct, orch) :
        fetch \in FetchOutcomes(url),
        construct \in SyncConstructOutcomes(srv),
        orch \in SyncOrchOutcomes(srv)}

\* every answer one call of process_image can give
ProcessImageResponses(srv, bytes) ==
    {ProcessImageResponse(srv, bytes, construct, orch) :
        construct \in SyncConstructOutcomes(srv),
        orch \in SyncOrchOutcomes(srv)}

ProcessImageUrl ==
    /\ \E url \in Urls :
          /\ request' = Request("process_image_url", url)
          /\ response' \in ProcessImageUrlResponses(impl, url)
    /\ UNCHANGED <<deployment, job_statuses, pending, nsubmitted>>
    /\ UNCHANGED <<orchVars, queueVars, geomVars>>

ProcessImage ==
    /\ impl # "jupyter"
    /\ \E bytes \in Files \cup {"unreadable"} :
          /\ request' = Request("process_image", bytes)
          /\ response' \in ProcessImageResponses(impl, bytes)
    /\ UNCHANGED <<deployment, job_statuses, pending, nsubmitted>>
    /\ UNCHANGED <<orchVars, queueVars, geomVars>>

(***************************************************************************)
(* The core without the submission handlers: one runner in flight over a   *)
(* store that already holds an entry for every id, a server answering the  *)
(* synchronous endpoints (main.py or the deployed Modal app), feed_queue   *)
(* and one call of process_queue.  The synchronous endpoints keep nothing  *)
(* between requests, so a behaviour holds one synchronous request.         *)
(***************************************************************************)
CoreRecords == {SubmittedRecord, FailedRecord(FetchError)}

\* the runners a deployment can have in flight
CoreInvocations(dep) ==
    {Invocation(id, "url", url) : id \in JobIds, url \in Urls}
        \cup (IF dep = "price"
              THEN {Invocation(id, "file", f) : id \in JobIds, f \in Files}
              ELSE {})

\* the worker of the one process_queue call
TheWorker == CHOOSE w \in Workers : \A v \in Workers : w <= v

InitCore ==
    /\ deployment \in Deployments
    /\ job_statuses \in [JobIds -> CoreRecords]
    /\ \E inv \in CoreInvocations(deployment) :
          /\ job_statuses[inv.job_id] = SubmittedRecord
          /\ pending = One(inv)
    /\ nsubmitted = 1
    /\ response = NoResponse
    /\ request = NoRequest
    /\ impl \in {"main", OrchImpl(deployment)}
    /\ crop_rejects = TRUE
    /\ predict = "ok"
    /\ dets = <<>>
    /\ orch_pc = "idle"
    /\ out = NoResult
    /\ image = "pil"
    /\ predicted = FALSE
    /\ image_queue = <<>>
    /\ nput = 0
    /\ to_feed \in {0, 1}
    /\ wpc = [w \in Workers |-> "idle"]
    /\ cursor = [w \in Workers |-> 0]
    /\ handed = [w \in Workers |-> {}]
    /\ worklog = [w \in Workers |-> <<>>]
    /\ GeomIdle

NextCore ==
    \/ \E inv \in CoreInvocations(deployment) : ProcessUrlJob(inv)
    \/ \E inv \in CoreInvocations(deployment) : ProcessFileJob(inv)
    \/ (request = NoRequest /\ ProcessImageUrl)
    \/ (request = NoRequest /\ ProcessImage)
    \/ FeedQueuePut
    \/ StartWorker(TheWorker)
    \/ IterateNext(TheWorker)
    \/ IterateRaises(TheWorker)
    \/ IsEmpty(TheWorker)
    \/ Get(TheWorker)
    \/ GetRaises(TheWorker)

SpecCore == InitCore /\ [][NextCore]_vars

SyncOps == {"process_image_url", "process_image"}

\* the inputs that cannot yield an image
FailingInputs == {"url_unreachable", "url_junk", "bytes_junk", "unreadable"}

\* C21: every fetch, decode or orchestration failure of a synchronous
\* endpoint is answered with an error response, 400 for a failed download
\* and 500 otherwise, never with a success; every such failure of a runner
\* ends with the job recorded as 'failed' with the error message.
C21_FailuresReported ==
    [][/\ request'.op \in SyncOps
            => /\ response'.op = request'.op
               /\ request'.input = "url_unreachable"
                     => response'.code = 400
               /\ request'.input \in FailingInputs \ {"url_unreachable"}
                     => response'.code = 500
               /\ response'.code = 200 => response'.body.count >= 0
       /\ \A inv \in BagToSet(pending) :
             RunnerEnds(inv)
                 => /\ inv.job_id \in DOMAIN job_statuses'
                    /\ job_statuses'[inv.job_id].status \in Terminal
                    /\ inv.input \in FailingInputs
                          => /\ job_statuses'[inv.job_id].status = "failed"
                             /\ job_statuses'[inv.job_id].error
                                    \in {FetchError, DecodeError}]_vars

(***************************************************************************)
(* Retries.  The runners and the body of the worker's loop are straight    *)
(* line code: one requests.get, one _detect_and_extract, and an except     *)
(* clause that only records or logs.                                       *)
(***************************************************************************)
\* what one run of process_url_job spends: the fetch, then the orchestrator
\* when the bytes decode and the reader is built
ProcessUrlJobEffort(dep, fetch, construct, orch) ==
    [fetches |-> 1,
     calls |-> IF fetch = "bytes_image" /\ construct = "ok" THEN 1 ELSE 0]

\* process_file_job has the bytes already
ProcessFileJobEffort(bytes, construct, orch) ==
    [fetches |-> 0,
     calls |-> IF bytes = "bytes_image" /\ construct = "ok" THEN 1 ELSE 0]

RunnerEfforts ==
    {ProcessUrlJobEffort(dep, fetch, construct, orch) :
        dep \in Deployments,
        fetch \in UNION {FetchOutcomes(url) : url \in Urls},
        construct \in ConstructOutcomes,
        orch \in UNION {OrchOutcomes(d) : d \in Deployments}}
    \cup
    {ProcessFileJobEffort(bytes, construct, orch) :
        bytes \in Files,
        construct \in ConstructOutcomes,
        orch \in UNION {OrchOutcomes(d) : d \in Deployments}}

Cropped(b) ==
    [size |-> <<Max(0, b[3] - b[1]), Max(0, b[4] - b[2])>>,
     content |-> [kind |-> "crop", box |-> b]]

\* round_aspect of Image.thumbnail: of the two whole numbers around
\* num / den the one that keeps the aspect ratio best (the lower on a tie),
\* and at least 1; wide says which side is being computed
RoundAspect(num, den, w, h, wide) ==
    LET f == num \div den
        c == IF num % den = 0 THEN f ELSE f + 1
        lower == IF wide
                 THEN f = 0 \/ (MaxSize * h - w * f) * c
                                   <= (w * c - MaxSize * h) * f
                 ELSE (MaxSize * w - f * h) <= (c * h - MaxSize * w)
    IN  Max(IF lower THEN f ELSE c, 1)

\* padded_img.thumbnail((1024, 1024), LANCZOS): an image within the size is
\* left alone, a larger one is resized keeping its aspect ratio
Thumbnail(img) ==
    LET w == img.size[1]
        h == img.size[2]
    IN  IF w <= MaxSize /\ h <= MaxSize
        THEN [pc |-> "constrained", image |-> img]
        ELSE IF h = 0
             THEN [pc |-> "raised", image |-> img]
             ELSE IF w <= h
                  THEN [pc |-> "constrained",
                        image |-> Resized(img,
                            <<RoundAspect(MaxSize * w, h, w, h, FALSE),
                              MaxSize>>)]
                  ELSE [pc |-> "constrained",
                        image |-> Resized(img,
                            <<MaxSize,
                              RoundAspect(MaxSize * h, w, w, h, TRUE)>>)]

\* the background the orchestrators pad with: (255, 255, 255)
White == "white"

\* what the loop does for one detection up to the OCR model: whether the
\* model is invoked, on the crop of which box, and with which image
OcrInput(i, det, w, h, rejects) ==
    LET b == CropBox(i, det.xyxy, w, h)
        padded == PadToSquare(i, Cropped(b), White)
        c == IF i = "jupyter" THEN Thumbnail(padded)
                              ELSE ConstrainMaxDimension(padded)
    IN  [called |-> IF i = "jupyter"
                    THEN ~(IsInvertedBox(b) /\ rejects)
                             /\ c.pc = "constrained"
                    ELSE ~IsInvalidBox(b) /\ c.pc = "constrained",
         box |-> b,
         image |-> c.image]

\* the loop reaches detection k: no earlier detection raised out of it
Reached(i, ds, k, w, h, rejects) ==
    \A j \in 1..(k - 1) :
        ProcessDetection(i, ds[j], w, h, rejects).kind # "raise"

\* C23: the OCR model is invoked only on crops of validated boxes (inside
\* the image, with positive width and height), and every image it is given
\* is square with side at most 1024, in all three implementations.
C23_OcrOnValidSquareCrops ==
    (orch_pc \in {"returned", "raised"} /\ predicted) =>
        \A k \in 1..Len(dets) :
            LET o == OcrInput(impl, dets[k], ImgW, ImgH, crop_rejects)
            IN  (Reached(impl, dets, k, ImgW, ImgH, crop_rejects)
                    /\ o.called)
                    => /\ WithinImage(o.box, ImgW, ImgH)
                       /\ o.image.size[1] = o.image.size[2]
                       /\ o.image.size[1] <= MaxSize

(***************************************************************************)
(* Failures inside process_queue (under SpecQueue).                        *)
(***************************************************************************)
\* worker w ends in this step
WorkerEnds(w) ==
    /\ wpc[w] \notin {"finished", "crashed", "killed"}
    /\ wpc'[w] \in {"finished", "crashed", "killed"}

\* the step handles an entry: it adds a record to the worker's log
HandlesItem(w) == worklog'[w] # worklog[w]

\* C24: a failure while a worker handles one item (dequeue, fetch, decode
\* or orchestration) stays inside the loop: the worker is not ended by an
\* exception nor while it handles an item, and when it finishes nothing it
\* has yet to attempt is left on the queue.
C24_FailuresAbsorbed ==
    [][\A w \in Workers :
          WorkerEnds(w)
              => /\ wpc'[w] # "crashed"
                 /\ ~HandlesItem(w)
                 /\ wpc'[w] = "finished"
                       => IF deployment = "price"
                          THEN cursor[w] = Len(image_queue)
                          ELSE image_queue = <<>>]_vars

(***************************************************************************)
(* Order of the 'submitted' write and the runner (under Spec).             *)
(***************************************************************************)
\* the step writes the 'submitted' record of id
WritesSubmitted(id) ==
    /\ nsubmitted' # nsubmitted
    /\ response'.job_id = id

\* C25: for every job id the 'submitted' record is written before the
\* runner of that id is spawned: a runner in flight always has its entry, a
\* 'submitted' write never comes after a runner of the same id was spawned
\* and so never replaces that runner's terminal record, and an id that was
\* answered to a submission is never reported as not found.
C25_SubmittedBeforeSpawn ==
    [][\A id \in JobIds :
          /\ (\E inv \in BagToSet(pending') : inv.job_id = id)
                => id \in DOMAIN job_statuses'
          /\ WritesSubmitted(id)
                => /\ id \notin DOMAIN job_statuses
                   /\ \A inv \in BagToSet(pending) : inv.job_id # id
          /\ id \in DOMAIN job_statuses
                => JobStatusResponse(job_statuses', id).code # 404]_vars

(***************************************************************************)
(* What each operation writes to the store (under SpecCore).               *)
(***************************************************************************)
\* C26: a runner invoked for job id J writes only job_statuses[J]: the
\* entries of all other ids are as before, whether J succeeds or fails; the
\* synchronous endpoints, feed_queue and process_queue leave the whole
\* store as it is.
C26_RunnerWritesOwnEntry ==
    [][/\ \A inv \in BagToSet(pending) :
             RunnerEnds(inv)
                 => /\ DOMAIN job_statuses' \subseteq
                           (DOMAIN job_statuses) \cup {inv.job_id}
                    /\ \A id \in DOMAIN job_statuses :
                          id # inv.job_id
                              => /\ id \in DOMAIN job_statuses'
                                 /\ job_statuses'[id] = job_statuses[id]
       /\ pending' = pending => job_statuses' = job_statuses]_vars

\* the runner of one id has written its terminal record beside the entry of
\* another id, a synchronous request was answered, and the worker went
\* through a fed queue
C26_Witness ==
    /\ pending = EmptyBag
    /\ \E id \in DOMAIN job_statuses :
          /\ job_statuses[id].status = "completed"
          /\ \E other \in DOMAIN job_statuses :
                /\ other # id
                /\ job_statuses[other] = FailedRecord(FetchError)
    /\ request.op \in SyncOps
    /\ response.code = 200
    /\ nput = 1
    /\ wpc[TheWorker] = "finished"
    /\ worklog[TheWorker] # <<>>

====
